---- MODULE Spec2Model ----
(***************************************************************************)
(* Model of src/index.js: the mail relay / sync bridge.                    *)
(*                                                                         *)
(*   GET  /read-mails          the sync cycle (cursor read, fetch with     *)
(*                             fallback, filter, dual write, cursor append)*)
(*   POST /api/import-emails   the bulk dispatch                           *)
(*                                                                         *)
(* Every handler is an async function: it runs without interruption from   *)
(* one await to the next, and other requests run while it is suspended.    *)
(* Each action below is one such stretch of a handler.                     *)
(***************************************************************************)
EXTENDS Integers, Sequences, FiniteSets, TLC

\* ------------------------------------------------------------------ bounds

\* Longest list of messages one fetch returns.
MaxFetch == 2
\* Last instant of the wall clock.
MaxNow == 2
\* The feed's cursors are the numbers 10 - HistorySpan .. 10 + HistorySpan.
HistorySpan == 1
\* Most rows of an uploaded sheet.
MaxRows == 2

\* The number of stored sent rows up to which single sends are taken.
MaxSent == 2

\* The requests that may be in progress at once.
Cycles == {"c1", "c2"}

\* ----------------------------------------------------------------- strings

\* process.env.SMTP_USER
SMTP_USER == "me@x"

\* A From header is a sequence of tokens: <<address>> or
\* <<display name, "<", address, ">">>; the absent header is <<>>.
NoFrom == <<>>

\* String.prototype.includes on a token sequence: some token is `sub`
\* (the address is one token, so a substring match of the address is a
\* token match).
Includes(s, sub) == \E k \in 1..Len(s) : s[k] = sub

\* A cursor (historyId) is TEXT: its decimal digits, most significant first.
\* The absent cursor is the empty text, which JavaScript reads as false.
NoHistory == <<>>

RECURSIVE ToText(_)
ToText(n) == IF n < 10 THEN <<n>> ELSE Append(ToText(n \div 10), n % 10)

RECURSIVE TextNum(_)
TextNum(t) ==
    IF Len(t) = 0 THEN 0
    ELSE 10 * TextNum(SubSeq(t, 1, Len(t) - 1)) + t[Len(t)]

\* The order of ORDER BY on a TEXT column: character by character, a proper
\* prefix first.
RECURSIVE TextLess(_, _)
TextLess(a, b) ==
    IF Len(b) = 0 THEN FALSE
    ELSE IF Len(a) = 0 THEN TRUE
    ELSE IF a[1] # b[1] THEN a[1] < b[1]
    ELSE TextLess(Tail(a), Tail(b))

\* ------------------------------------------------------------------- dates

\* Date header values: absent, unparseable, and one that parses to instant 0
\* (the clock starts at 1, so a parsed date is never the current time).
NoDate == ""
BadDate == "not a date"
GoodDate == "Thu, 01 Jan 1970 00:00:00 GMT"
InvalidDate == -1

\* new Date(s)
ParseDate(s) == IF s = GoodDate THEN 0 ELSE InvalidDate

\* Date.prototype.toISOString throws RangeError on an invalid date.
IsoThrows(d) == d = InvalidDate
ToISOString(d) == <<"iso", d>>

\* ------------------------------------------------------------------- state

VARIABLES
    mailbox,            \* the remote mailbox: the messages the feed can return
    now,                \* the wall clock
    emails,             \* relational table emails (id TEXT PRIMARY KEY)
    inbox,              \* document collection inbox, one document per doc id
    gmail_sync_state,   \* relational table gmail_sync_state (history_id TEXT)
    sync,               \* the /read-mails requests, one record per request slot
    sent_emails,        \* relational table sent_emails (id SERIAL): its rows
    sent_docs,          \* document collection sent_emails
    bulk,               \* the /api/import-emails request
    single,             \* the /api/send-emails request
    observed,           \* history: every cursor seen on a fetched message
    feedMonotone,       \* history: the feed's cursors never decreased so far
    overlap,            \* history: two sync cycles were in progress at once
    aborted             \* history: some sync cycle ended with an error

syncVars == <<mailbox, now, emails, inbox, gmail_sync_state, sync,
              observed, feedMonotone, overlap, aborted>>

outVars == <<sent_emails, sent_docs, bulk, single>>

\* A message as fetchNewEmails / fetchLastMonthEmails build it (subject,
\* snippet and threadId are copied through and are left out).
Message(id, from, date, historyId) ==
    [id |-> id, from |-> from, date |-> date, historyId |-> historyId]

\* The cursors the feed hands out.
HistoryIds == {ToText(n) : n \in (10 - HistorySpan)..(10 + HistorySpan)}

\* The lists a fetch can return: any messages of the mailbox, in any order.
FetchLists == UNION {[1..n -> mailbox] : n \in 0..MaxFetch}

\* A request slot. emailsToSync, i, date and syncedEmails are the handler's
\* locals; status, added and emails are the response, and with it the locals
\* are gone. err is what the outer catch caught (the step that threw),
\* fellBack records that fetchLastMonthEmails returned, and noop that the
\* INSERT of the message in hand met a stored row with its id.
IdleCycle ==
    [pc |-> "idle", emailsToSync |-> <<>>, i |-> 0, date |-> 0,
     syncedEmails |-> <<>>,
     status |-> 0, added |-> 0, emails |-> <<>>, err |-> "",
     fellBack |-> FALSE, noop |-> FALSE]

\* ------------------------------------------------------- the sync's helpers

\* SELECT history_id FROM gmail_sync_state ORDER BY history_id DESC LIMIT 1,
\* then lastSync[0]?.history_id || null.
LatestHistoryId(state) ==
    IF state = {} THEN NoHistory
    ELSE CHOOSE h \in state : \A g \in state : g = h \/ TextLess(g, h)

\* const date = e.date ? new Date(e.date) : new Date();
ResolveDate(e, t) == IF e.date # NoDate THEN ParseDate(e.date) ELSE t

\* Faulty variant: the filter without the test on the mailbox's own address.
SkipNoSender(e) == e.from = NoFrom

\* if (!e.from || e.from.includes(process.env.SMTP_USER)) continue;
SkipMessage(e) == e.from = NoFrom \/ Includes(e.from, SMTP_USER)

\* The row of INSERT INTO emails.
EmailRow(e, d) ==
    [id |-> e.id, from_email |-> e.from, to_email |-> SMTP_USER,
     date |-> ToISOString(d)]

\* Faulty variant: the insert is lost.
InsertDropped(table, row) == table

\* Faulty variant: the INSERT with no conflict clause, on a table with no key.
InsertAlways(table, row) == table \cup {row}

\* INSERT ... ON CONFLICT (id) DO NOTHING.
InsertIfAbsent(table, row) ==
    IF \E r \in table : r.id = row.id THEN table ELSE table \cup {row}

\* The document of emailsRef.doc(e.id).set(...).
InboxDoc(e, d) ==
    [id |-> e.id, from |-> e.from, to |-> SMTP_USER,
     received_at |-> ToISOString(d)]

\* collection.doc(id).set(data): the document with that id is replaced.
DocSet(coll, doc) == {d \in coll : d.id # doc.id} \cup {doc}

\* emailsToSync[emailsToSync.length - 1]?.historyId
NewestHistoryId(list) ==
    IF Len(list) = 0 THEN NoHistory ELSE list[Len(list)].historyId

\* INSERT INTO gmail_sync_state ... ON CONFLICT (history_id) DO NOTHING.
AppendHistoryId(state, h) == state \cup {h}

\* res.status(500).json({error}) of the handler's catch.
SyncError(s, err) ==
    [IdleCycle EXCEPT !.pc = "done", !.status = 500, !.err = err,
                      !.fellBack = s.fellBack]

\* res.json({message, added: syncedEmails.length, emails: syncedEmails}).
SyncOk(s) ==
    [IdleCycle EXCEPT !.pc = "done", !.status = 200,
                      !.added = Len(s.syncedEmails),
                      !.emails = s.syncedEmails,
                      !.fellBack = s.fellBack]

\* Faulty variant: the newest cursor is picked and its INSERT issued before
\* the loop has stored anything.
RunLoopCursorFirst(s, t) ==
    IF NewestHistoryId(s.emailsToSync) # NoHistory
    THEN [s EXCEPT !.pc = "cursor"]
    ELSE SyncOk(s)

\* The for loop from its head at message s.i to the next await, at time t:
\* the date is resolved, a message with no sender or sent by the mailbox
\* itself is skipped, and for the first other message the INSERT is issued
\* (building it calls date.toISOString(), which throws on an invalid date).
\* After the last message the newest cursor is picked and its INSERT issued,
\* or, with no cursor, the response is sent.
RECURSIVE RunLoop(_, _)
RunLoop(s, t) ==
    IF s.i > Len(s.emailsToSync)
    THEN IF NewestHistoryId(s.emailsToSync) # NoHistory
         THEN [s EXCEPT !.pc = "cursor"]
         ELSE SyncOk(s)
    ELSE LET e == s.emailsToSync[s.i]
             d == ResolveDate(e, t)
         IN
         IF SkipMessage(e) THEN RunLoop([s EXCEPT !.i = s.i + 1], t)
         ELSE IF IsoThrows(d) THEN SyncError(s, "date")
         ELSE [s EXCEPT !.date = d, !.pc = "insert"]

\* ---------------------------------------------------------- history helpers

Cursors(list) == {list[k].historyId : k \in 1..Len(list)} \ {NoHistory}

MaxNum(S) == CHOOSE n \in S : \A m \in S : m <= n

\* Every message of the list carries a cursor, the cursors do not decrease
\* along the list, and none is below a cursor seen before.
NonDecreasing(list, seen) ==
    /\ \A k \in 1..Len(list) : list[k].historyId # NoHistory
    /\ \A k \in 1..Len(list) : \A j \in 1..k :
          TextNum(list[j].historyId) <= TextNum(list[k].historyId)
    /\ \A k \in 1..Len(list) : \A h \in seen :
          TextNum(h) <= TextNum(list[k].historyId)

Active(c) == sync[c].pc \notin {"idle", "done"}

\* --------------------------------------------------------- GET /read-mails

\* A request arrives; the handler issues the SELECT and suspends.
StartSync(c) ==
    /\ ~Active(c)
    /\ sync' = [sync EXCEPT ![c] = [IdleCycle EXCEPT !.pc = "read"]]
    /\ overlap' = (overlap \/ \E d \in Cycles \ {c} : Active(d))
    /\ UNCHANGED <<outVars, mailbox, now, emails, inbox, gmail_sync_state,
                   observed, feedMonotone, aborted>>

\* The SELECT returns: with a cursor the handler calls fetchNewEmails, with
\* none it throws into the inner catch and calls fetchLastMonthEmails.
ReadCursor(c) ==
    /\ sync[c].pc = "read"
    /\ LET last == LatestHistoryId(gmail_sync_state) IN
       sync' = [sync EXCEPT ![c] =
                  [@ EXCEPT !.pc = IF last # NoHistory THEN "fetchNew"
                                   ELSE "fallback"]]
    /\ UNCHANGED <<outVars, mailbox, now, emails, inbox, gmail_sync_state,
                   observed, feedMonotone, overlap, aborted>>

\* The SELECT raises: the outer catch answers 500.
ReadCursorFails(c) ==
    /\ sync[c].pc = "read"
    /\ sync' = [sync EXCEPT ![c] = SyncError(@, "read")]
    /\ aborted' = TRUE
    /\ UNCHANGED <<outVars, mailbox, now, emails, inbox, gmail_sync_state,
                   observed, feedMonotone, overlap>>

\* A fetch returned `list`: it becomes emailsToSync and the loop runs to its
\* first await.
Fetched(c, list, fallback) ==
    /\ sync' = [sync EXCEPT ![c] =
                  RunLoop([@ EXCEPT !.emailsToSync = list, !.i = 1,
                                    !.fellBack = fallback], now)]
    /\ observed' = observed \cup Cursors(list)
    /\ feedMonotone' = (feedMonotone /\ NonDecreasing(list, observed))
    /\ aborted' = (aborted \/ sync'[c].status = 500)
    /\ UNCHANGED <<outVars, mailbox, now, emails, inbox, gmail_sync_state, overlap>>

\* fetchNewEmails(lastHistoryId) returns.
FetchNew(c) ==
    /\ sync[c].pc = "fetchNew"
    /\ \E list \in FetchLists : Fetched(c, list, FALSE)

\* fetchNewEmails throws: the inner catch calls fetchLastMonthEmails.
FetchNewFails(c) ==
    /\ sync[c].pc = "fetchNew"
    /\ sync' = [sync EXCEPT ![c] = [@ EXCEPT !.pc = "fallback"]]
    /\ UNCHANGED <<outVars, mailbox, now, emails, inbox, gmail_sync_state,
                   observed, feedMonotone, overlap, aborted>>

\* fetchLastMonthEmails returns.
FetchFallback(c) ==
    /\ sync[c].pc = "fallback"
    /\ \E list \in FetchLists : Fetched(c, list, TRUE)

\* Faulty variant: a failed recent-window fetch is called again.
FetchFallbackRetried(c) ==
    /\ sync[c].pc = "fallback"
    /\ sync' = [sync EXCEPT ![c] = [@ EXCEPT !.err = "fallback"]]
    /\ aborted' = aborted
    /\ UNCHANGED <<outVars, mailbox, now, emails, inbox, gmail_sync_state,
                   observed, feedMonotone, overlap>>

\* fetchLastMonthEmails throws inside the inner catch: the outer catch
\* answers 500.
FetchFallbackFails(c) ==
    /\ sync[c].pc = "fallback"
    /\ sync' = [sync EXCEPT ![c] = SyncError(@, "fallback")]
    /\ aborted' = TRUE
    /\ UNCHANGED <<outVars, mailbox, now, emails, inbox, gmail_sync_state,
                   observed, feedMonotone, overlap>>

\* INSERT INTO emails ... ON CONFLICT (id) DO NOTHING completes; the
\* document write is issued.
InsertEmail(c) ==
    /\ sync[c].pc = "insert"
    /\ LET s == sync[c] IN
       /\ emails' = InsertIfAbsent(emails,
                                   EmailRow(s.emailsToSync[s.i], s.date))
       /\ sync' = [sync EXCEPT ![c] =
                     [@ EXCEPT !.pc = "doc",
                               !.noop = \E r \in emails :
                                           r.id = s.emailsToSync[s.i].id]]
    /\ UNCHANGED <<outVars, mailbox, now, inbox, gmail_sync_state,
                   observed, feedMonotone, overlap, aborted>>

\* The INSERT raises: the outer catch answers 500.
InsertEmailFails(c) ==
    /\ sync[c].pc = "insert"
    /\ sync' = [sync EXCEPT ![c] = SyncError(@, "insert")]
    /\ aborted' = TRUE
    /\ UNCHANGED <<outVars, mailbox, now, emails, inbox, gmail_sync_state,
                   observed, feedMonotone, overlap>>

\* emailsRef.doc(e.id).set(...) completes; syncedEmails.push(e) and the loop
\* runs on to its next await.
SetDoc(c) ==
    /\ sync[c].pc = "doc"
    /\ LET s == sync[c]
           e == s.emailsToSync[s.i]
       IN
       /\ inbox' = DocSet(inbox, InboxDoc(e, s.date))
       /\ sync' = [sync EXCEPT ![c] =
                     RunLoop([s EXCEPT !.syncedEmails = Append(s.syncedEmails, e),
                                       !.i = s.i + 1, !.noop = FALSE], now)]
    /\ aborted' = (aborted \/ sync'[c].status = 500)
    /\ UNCHANGED <<outVars, mailbox, now, emails, gmail_sync_state,
                   observed, feedMonotone, overlap>>

\* The document write raises: the outer catch answers 500.
SetDocFails(c) ==
    /\ sync[c].pc = "doc"
    /\ sync' = [sync EXCEPT ![c] = SyncError(@, "doc")]
    /\ aborted' = TRUE
    /\ UNCHANGED <<outVars, mailbox, now, emails, inbox, gmail_sync_state,
                   observed, feedMonotone, overlap>>

\* INSERT INTO gmail_sync_state completes; the response is sent.
AppendCursor(c) ==
    /\ sync[c].pc = "cursor"
    /\ gmail_sync_state' =
          AppendHistoryId(gmail_sync_state,
                          NewestHistoryId(sync[c].emailsToSync))
    /\ sync' = [sync EXCEPT ![c] = SyncOk(@)]
    /\ UNCHANGED <<outVars, mailbox, now, emails, inbox,
                   observed, feedMonotone, overlap, aborted>>

\* The cursor's INSERT raises: the outer catch answers 500.
AppendCursorFails(c) ==
    /\ sync[c].pc = "cursor"
    /\ sync' = [sync EXCEPT ![c] = SyncError(@, "cursor")]
    /\ aborted' = TRUE
    /\ UNCHANGED <<outVars, mailbox, now, emails, inbox, gmail_sync_state,
                   observed, feedMonotone, overlap>>

\* Time passes.
Tick ==
    /\ now < MaxNow
    /\ now' = now + 1
    /\ UNCHANGED <<outVars, mailbox, emails, inbox, gmail_sync_state, sync,
                   observed, feedMonotone, overlap, aborted>>

SyncStep(c) ==
    \/ StartSync(c)
    \/ ReadCursor(c)
    \/ ReadCursorFails(c)
    \/ FetchNew(c)
    \/ FetchNewFails(c)
    \/ FetchFallback(c)
    \/ FetchFallbackFails(c)
    \/ InsertEmail(c)
    \/ InsertEmailFails(c)
    \/ SetDoc(c)
    \/ SetDocFails(c)
    \/ AppendCursor(c)
    \/ AppendCursorFails(c)

\* -------------------------------------------------- POST /api/import-emails

\* A spreadsheet cell is a string; read-excel-file gives null for an empty
\* cell. A form field that was not sent is undefined.
Null == "<null>"
Undefined == "<undefined>"

\* JavaScript's !x for the values above.
Falsy(x) == x \in {Null, Undefined, ""}

\* c.toString().toLowerCase() for the cells of the model.
ToLowerCase(c) == IF c \in {"Email", "EMAIL"} THEN "email" ELSE c

\* rows[0].map((c) => c.toString().toLowerCase()) throws TypeError when the
\* sheet has no row (rows[0] is undefined) or the first row has an empty cell.
HeaderThrows(rows) ==
    \/ Len(rows) = 0
    \/ \E k \in 1..Len(rows[1]) : rows[1][k] = Null

\* headerRow.includes("email") ? rows.slice(1) : rows
DataRows(rows) ==
    IF \E k \in 1..Len(rows[1]) : ToLowerCase(rows[1][k]) = "email"
    THEN Tail(rows) ELSE rows

\* Faulty variant: a row's own subject and message are taken even when blank.
ResolveRowNoFallback(row, commonSubject, commonMessage) ==
    IF Len(row) = 1
    THEN [name |-> Null, email |-> row[1],
          subject |-> commonSubject, message |-> commonMessage]
    ELSE IF Len(row) = 2
    THEN [name |-> row[1], email |-> row[2],
          subject |-> commonSubject, message |-> commonMessage]
    ELSE IF Len(row) >= 4
    THEN [name |-> row[1], email |-> row[2],
          subject |-> row[3], message |-> row[4]]
    ELSE [name |-> Null, email |-> Null,
          subject |-> commonSubject, message |-> commonMessage]

\* The row's fields by its length, over the shared subject and message.
ResolveRow(row, commonSubject, commonMessage) ==
    IF Len(row) = 1
    THEN [name |-> Null, email |-> row[1],
          subject |-> commonSubject, message |-> commonMessage]
    ELSE IF Len(row) = 2
    THEN [name |-> row[1], email |-> row[2],
          subject |-> commonSubject, message |-> commonMessage]
    ELSE IF Len(row) >= 4
    THEN [name |-> row[1], email |-> row[2],
          subject |-> IF Falsy(row[3]) THEN commonSubject ELSE row[3],
          message |-> IF Falsy(row[4]) THEN commonMessage ELSE row[4]]
    ELSE [name |-> Null, email |-> Null,
          subject |-> commonSubject, message |-> commonMessage]

\* req.file.originalname
OriginalName == "list.xlsx"

\* The ids Math.floor(1000000000 + Math.random() * 9000000000) can give.
SavedIds == {"1000000000", "1000000001"}

\* The row of INSERT INTO sent_emails.
SentRow(r) ==
    [name |-> r.name, email |-> r.email, subject |-> r.subject,
     message |-> r.message, filename |-> OriginalName]

\* savedEmail
SavedEmail(id, r, t) ==
    [id |-> id, from |-> SMTP_USER, to |-> r.email, subject |-> r.subject,
     message |-> r.message, sent_at |-> ToISOString(t)]

NoRow == [name |-> Null, email |-> Null, subject |-> "", message |-> ""]

\* The request: its form fields, the handler's locals (dataRows, the loop's
\* position k and current row, failedEmails), the response, and as history
\* the sheet and whether readXlsxFile returned it, the recipients sendMail
\* was called for, in order, and the recipients whose try block raised.
IdleBulk ==
    [pc |-> "idle", commonSubject |-> Undefined, commonMessage |-> Undefined,
     dataRows |-> <<>>, k |-> 0, cur |-> NoRow, failedEmails |-> <<>>,
     status |-> 0,
     rows |-> <<>>, parsed |-> FALSE, attempted |-> <<>>, raised |-> {}]

\* res.status(code).json({message}).
BulkError(b, code) == [b EXCEPT !.pc = "done", !.status = code]

\* res.json({message, failedEmails}).
BulkOk(b) == [b EXCEPT !.pc = "done", !.status = 200]

\* Faulty variant: a catch that only logs.
RowCatchLogsOnly(failed, email) == failed

\* failedEmails.push(email) of the row's catch.
RowCatch(failed, email) == Append(failed, email)

\* Faulty variant: the validation of the subject alone.
FieldsMissingSubjectOnly(subject, message) == Falsy(subject)

\* if (!commonSubject || !commonMessage) return res.status(400)...
FieldsMissing(subject, message) == Falsy(subject) \/ Falsy(message)

\* The for loop from its head at row b.k to the next await: a row with no
\* recipient is skipped, for the first other row sendMail is called; after
\* the last row the response is sent.
RECURSIVE RunRows(_)
RunRows(b) ==
    IF b.k > Len(b.dataRows) THEN BulkOk(b)
    ELSE LET r == ResolveRow(b.dataRows[b.k], b.commonSubject, b.commonMessage)
         IN
         IF Falsy(r.email) THEN RunRows([b EXCEPT !.k = b.k + 1])
         ELSE [b EXCEPT !.cur = r, !.pc = "send",
                        !.attempted = Append(b.attempted, r.email)]

\* The row's catch: the recipient is recorded and the loop goes on.
RowFailed(b) ==
    RunRows([b EXCEPT !.failedEmails = RowCatch(b.failedEmails, b.cur.email),
                      !.raised = b.raised \cup {b.cur.email},
                      !.k = b.k + 1])

\* A request arrives with or without a file and with its form fields. It is
\* answered 400 at once, or readXlsxFile is called. (The model takes a new
\* request only while the sent stores are empty, which bounds them.)
StartBulk(hasFile, subject, message) ==
    /\ bulk.pc \in {"idle", "done"}
    /\ Len(sent_emails) = 0
    /\ bulk' =
         LET b == [IdleBulk EXCEPT !.commonSubject = subject,
                                   !.commonMessage = message]
         IN
         IF ~hasFile THEN BulkError(b, 400)
         ELSE IF FieldsMissing(subject, message) THEN BulkError(b, 400)
         ELSE [b EXCEPT !.pc = "readFile"]
    /\ UNCHANGED <<syncVars, single, sent_emails, sent_docs>>

\* readXlsxFile returns the sheet's rows; the header is detected and the
\* loop runs to its first await.
ReadRows(rows) ==
    /\ bulk.pc = "readFile"
    /\ bulk' =
         LET b == [bulk EXCEPT !.rows = rows, !.parsed = TRUE] IN
         IF HeaderThrows(rows) THEN BulkError(b, 500)
         ELSE RunRows([b EXCEPT !.dataRows = DataRows(rows), !.k = 1])
    /\ UNCHANGED <<syncVars, single, sent_emails, sent_docs>>

\* readXlsxFile throws: the outer catch answers 500.
ReadRowsFails ==
    /\ bulk.pc = "readFile"
    /\ bulk' = BulkError(bulk, 500)
    /\ UNCHANGED <<syncVars, single, sent_emails, sent_docs>>

\* sendMail returns; the INSERT is issued.
SendRow ==
    /\ bulk.pc = "send"
    /\ bulk' = [bulk EXCEPT !.pc = "insert"]
    /\ UNCHANGED <<syncVars, single, sent_emails, sent_docs>>

\* sendMail throws.
SendRowFails ==
    /\ bulk.pc = "send"
    /\ bulk' = RowFailed(bulk)
    /\ UNCHANGED <<syncVars, single, sent_emails, sent_docs>>

\* INSERT INTO sent_emails completes; the document write is issued.
InsertSent ==
    /\ bulk.pc = "insert"
    /\ sent_emails' = Append(sent_emails, SentRow(bulk.cur))
    /\ bulk' = [bulk EXCEPT !.pc = "doc"]
    /\ UNCHANGED <<syncVars, single, sent_docs>>

\* The INSERT raises.
InsertSentFails ==
    /\ bulk.pc = "insert"
    /\ bulk' = RowFailed(bulk)
    /\ UNCHANGED <<syncVars, single, sent_emails, sent_docs>>

\* db.collection("sent_emails").doc(savedId).set(savedEmail) completes.
SetSentDoc(savedId) ==
    /\ bulk.pc = "doc"
    /\ sent_docs' = DocSet(sent_docs, SavedEmail(savedId, bulk.cur, now))
    /\ bulk' = RunRows([bulk EXCEPT !.k = bulk.k + 1])
    /\ UNCHANGED <<syncVars, single, sent_emails>>

\* The document write raises.
SetSentDocFails ==
    /\ bulk.pc = "doc"
    /\ bulk' = RowFailed(bulk)
    /\ UNCHANGED <<syncVars, single, sent_emails, sent_docs>>

\* --------------------------------------------------- POST /api/send-emails

\* The request's form fields and whether a file is attached, and the
\* response.
IdleSingle ==
    [pc |-> "idle", name |-> Undefined, email |-> Undefined,
     subject |-> Undefined, message |-> Undefined, file |-> FALSE,
     status |-> 0]

\* The row of the handler's INSERT INTO sent_emails.
SingleRow(q) ==
    [name |-> q.name, email |-> q.email, subject |-> q.subject,
     message |-> q.message,
     filename |-> IF q.file THEN OriginalName ELSE Null]

\* res.status(500).json({message}) of the handler's catch.
SingleError(q) == [q EXCEPT !.pc = "done", !.status = 500]

\* res.json({message, email: savedEmail}).
SingleOk(q) == [q EXCEPT !.pc = "done", !.status = 200]

\* A request arrives and sendMail is called. (The model takes a new request
\* only while fewer than MaxSent rows are stored, which bounds the stores.)
StartSingle(q) ==
    /\ single.pc \in {"idle", "done"}
    /\ Len(sent_emails) < MaxSent
    /\ single' = [IdleSingle EXCEPT !.pc = "send", !.name = q.name,
                                    !.email = q.email, !.subject = q.subject,
                                    !.message = q.message, !.file = q.file]
    /\ UNCHANGED <<syncVars, sent_emails, sent_docs, bulk>>

\* sendMail returns; the INSERT is issued.
SendSingle ==
    /\ single.pc = "send"
    /\ single' = [single EXCEPT !.pc = "insert"]
    /\ UNCHANGED <<syncVars, sent_emails, sent_docs, bulk>>

\* sendMail throws: the catch answers 500.
SendSingleFails ==
    /\ single.pc = "send"
    /\ single' = SingleError(single)
    /\ UNCHANGED <<syncVars, sent_emails, sent_docs, bulk>>

\* INSERT INTO sent_emails completes; the document write is issued.
InsertSingle ==
    /\ single.pc = "insert"
    /\ sent_emails' = Append(sent_emails, SingleRow(single))
    /\ single' = [single EXCEPT !.pc = "doc"]
    /\ UNCHANGED <<syncVars, sent_docs, bulk>>

\* The INSERT raises: the catch answers 500.
InsertSingleFails ==
    /\ single.pc = "insert"
    /\ single' = SingleError(single)
    /\ UNCHANGED <<syncVars, sent_emails, sent_docs, bulk>>

\* db.collection("sent_emails").doc(savedId).set(savedEmail) completes; the
\* response is sent.
SetSingleDoc(savedId) ==
    /\ single.pc = "doc"
    /\ sent_docs' = DocSet(sent_docs, SavedEmail(savedId, single, now))
    /\ single' = SingleOk(single)
    /\ UNCHANGED <<syncVars, sent_emails, bulk>>

\* The document write raises: the catch answers 500.
SetSingleDocFails ==
    /\ single.pc = "doc"
    /\ single' = SingleError(single)
    /\ UNCHANGED <<syncVars, sent_emails, sent_docs, bulk>>

\* The requests of the single-send claims.
SingleRequests ==
    {[name |-> "Bob", email |-> e, subject |-> "Hi", message |-> "Hi",
      file |-> f] : e \in {"a@x", "b@x"}, f \in BOOLEAN}

SingleStep ==
    \/ \E q \in SingleRequests : StartSingle(q)
    \/ SendSingle
    \/ SendSingleFails
    \/ InsertSingle
    \/ InsertSingleFails
    \/ \E id \in SavedIds : SetSingleDoc(id)
    \/ SetSingleDocFails

\* The form fields and sheets of the bulk claims.
FormTexts == {Undefined, "", "Hi"}

BulkCells == {Null, "Email", "a@x", "b@x"}

BulkRows == UNION {[1..w -> BulkCells] : w \in {1, 2}}

\* A sheet is rectangular: all its rows have the sheet's width.
Sheets(rowSet) ==
    UNION {{sh \in [1..n -> rowSet] :
              \A j \in 1..n : Len(sh[j]) = Len(sh[1])} : n \in 0..MaxRows}

\* The rows of the row-shape claims: every field count from 0 to 4, the
\* recipient present or empty, a row's own subject present, empty or blank,
\* its own message present or empty.
ShapeRows ==
    {<<>>}
    \cup {<<e>> : e \in {Null, "a@x"}}
    \cup {<<"Bob", e>> : e \in {Null, "a@x"}}
    \cup {<<"Bob", e, sb>> : e \in {Null, "a@x"}, sb \in {Null, "", "Re"}}
    \cup {<<"Bob", e, sb, m>> :
            e \in {Null, "a@x"}, sb \in {Null, "", "Re"}, m \in {Null, "Body"}}

\* The handler's steps over the sheets of `rowSet`.
BulkStepOver(rowSet) ==
    \/ \E f \in BOOLEAN, subject \in FormTexts, message \in FormTexts :
          StartBulk(f, subject, message)
    \/ \E rows \in Sheets(rowSet) : ReadRows(rows)
    \/ ReadRowsFails
    \/ SendRow
    \/ SendRowFails
    \/ InsertSent
    \/ InsertSentFails
    \/ \E id \in SavedIds : SetSentDoc(id)
    \/ SetSentDocFails

BulkStep == BulkStepOver(BulkRows)

\* ------------------------------------------------------------ specifications

\* The mailbox of the overlapping cycles: one remote id, sent by the mailbox
\* itself or by another, no Date header, one cursor.
StoreMailbox ==
    {Message(id, from, date, ToText(10)) :
        id \in {"m1"},
        from \in {<<SMTP_USER>>, <<"bob@y">>},
        date \in {NoDate}}

InitWith(box) ==
    /\ mailbox = box
    /\ now = 1
    /\ emails = {}
    /\ inbox = {}
    /\ gmail_sync_state = {}
    /\ sync = [c \in Cycles |-> IdleCycle]
    /\ observed = {}
    /\ feedMonotone = TRUE
    /\ overlap = FALSE
    /\ aborted = FALSE
    /\ sent_emails = <<>>
    /\ sent_docs = {}
    /\ bulk = IdleBulk
    /\ single = IdleSingle

Init == InitWith(StoreMailbox)

Next == Tick \/ \E c \in Cycles : SyncStep(c)

\* The mailbox of the sequential cycles: two remote ids from another sender
\* under every form of the Date header, and a message the mailbox sent
\* itself; one cursor.
SeqMailbox ==
    {Message(id, from, date, ToText(10)) :
        id \in {"m1", "m2"},
        from \in {<<"bob@y">>},
        date \in {NoDate, BadDate, GoodDate}}
    \cup {Message("m1", <<SMTP_USER>>, GoodDate, ToText(10))}

\* The mailbox of the cursor claims: one message under every cursor and
\* under none.
CursorMailbox ==
    {Message("m1", <<"bob@y">>, GoodDate, h) : h \in HistoryIds \cup {NoHistory}}

\* The mailbox of the filter claims: two remote ids under every form of the
\* From header.
FilterMailbox ==
    {Message(id, from, GoodDate, ToText(10)) :
        id \in {"m1", "m2"},
        from \in {NoFrom, <<SMTP_USER>>, <<"Me", "<", SMTP_USER, ">">>,
                  <<"bob@y">>, <<"Bob", "<", "bob@y", ">">>}}

InitSeq == InitWith(SeqMailbox)

InitFilter == InitWith(FilterMailbox)

InitCursor == InitWith(CursorMailbox)

\* One request at a time.
NextSeq == Tick \/ SyncStep("c1")

vars == <<syncVars, outVars>>

Spec == Init /\ [][Next]_vars

SpecSeq == InitSeq /\ [][NextSeq]_vars

SpecCursor == InitCursor /\ [][NextSeq]_vars

SpecFilter == InitFilter /\ [][NextSeq]_vars

SpecBulk == Init /\ [][BulkStep]_vars

\* The rows of the sheets dispatched next to single sends.
SendRows == {<<"c@x">>}

\* Single sends and a bulk dispatch, in any interleaving, as time passes.
SendStep == Tick \/ SingleStep \/ BulkStepOver(SendRows)

SpecSend == Init /\ [][SendStep]_vars

SpecRows == Init /\ [][BulkStepOver(ShapeRows)]_vars

\* -------------------------------------------------------------------- claims

Range(q) == {q[k] : k \in 1..Len(q)}

Done(c) == sync[c].pc = "done"

\* The address a From header names.
AddressOf(f) == IF Len(f) = 1 THEN f[1] ELSE IF Len(f) = 4 THEN f[3] ELSE ""

\* C1: after any sync cycles, overlapping ones included, every remote
\* message id has at most one row in emails and at most one document in
\* inbox.
C1_OneRecordPerId ==
    /\ \A r1 \in emails : \A r2 \in emails : r1.id = r2.id => r1 = r2
    /\ \A d1 \in inbox : \A d2 \in inbox : d1.id = d2.id => d1 = d2

\* Two cycles in progress at once have both written the same message to both
\* stores, and each store holds one record.
C1_Witness ==
    /\ \A c \in Cycles :
          /\ sync[c].pc = "cursor"
          /\ \E k \in 1..Len(sync[c].syncedEmails) :
                sync[c].syncedEmails[k].id = "m1"
    /\ Cardinality(emails) = 1
    /\ Cardinality(inbox) = 1

\* C2: when no cycle is in progress, the cycles ran one after another, none
\* failed, and the feed's cursors never decreased, the cursor the next cycle
\* reads is numerically the greatest cursor seen on any fetched message.
C2_CursorMonotonicity ==
    (/\ \A c \in Cycles : ~Active(c)
     /\ ~overlap
     /\ ~aborted
     /\ feedMonotone
     /\ observed # {})
    => TextNum(LatestHistoryId(gmail_sync_state))
         = MaxNum({TextNum(h) : h \in observed})

\* C3: no step of any cycle lowers, in the numeric order of the cursors, the
\* cursor the next cycle reads.
C3_NeverRegresses ==
    [][TextNum(LatestHistoryId(gmail_sync_state'))
         >= TextNum(LatestHistoryId(gmail_sync_state))]_vars

\* C4: a cycle in which the relational insert or the document write of a
\* message raised still ends with the success payload.
C4_PersistenceIsolation ==
    \A c \in Cycles :
        (Done(c) /\ sync[c].err \in {"insert", "doc"}) => sync[c].status = 200

\* C5: a cycle whose recent-window fetch returned ends with the success
\* payload.
C5_FallbackRecovery ==
    \A c \in Cycles : (Done(c) /\ sync[c].fellBack) => sync[c].status = 200

\* C6: no cycle fails on a message's date.
C6_DateFallback ==
    \A c \in Cycles : Done(c) => sync[c].err # "date"

\* C7: no record of either inbound store, and no message of a cycle's
\* synchronized list or response, has the mailbox's own address as sender.
C7_SelfFilter ==
    /\ \A r \in emails : AddressOf(r.from_email) # SMTP_USER
    /\ \A d \in inbox : AddressOf(d.from) # SMTP_USER
    /\ \A c \in Cycles :
          \A e \in Range(sync[c].syncedEmails) \cup Range(sync[c].emails) :
              AddressOf(e.from) # SMTP_USER

\* A cycle on the cursor path has gone through a list that holds a message
\* of the mailbox's own, under a display name, and stored another.
C7_Witness ==
    \E c \in Cycles :
        /\ sync[c].pc = "cursor"
        /\ ~sync[c].fellBack
        /\ \E e \in Range(sync[c].emailsToSync) :
              e.from = <<"Me", "<", SMTP_USER, ">">>
        /\ Len(sync[c].syncedEmails) = 1
        /\ inbox # {}

\* The recipients of the sheet's valid rows, in input order: the rows after
\* the header, if the first row has a cell that reads "email", that resolve
\* to a recipient.
RECURSIVE Recipients(_)
Recipients(rows) ==
    IF Len(rows) = 0 THEN <<>>
    ELSE LET r == ResolveRow(Head(rows), "s", "m") IN
         IF Falsy(r.email) THEN Recipients(Tail(rows))
         ELSE <<r.email>> \o Recipients(Tail(rows))

ValidRecipients(rows) ==
    IF Len(rows) = 0 THEN <<>>
    ELSE IF \E k \in 1..Len(rows[1]) : rows[1][k] \in {"email", "Email", "EMAIL"}
    THEN Recipients(Tail(rows))
    ELSE Recipients(rows)

\* C8: when a bulk dispatch that passed validation ends, sendMail has been
\* called once for every valid row of the sheet, in input order.
C8_BulkIsolation ==
    (bulk.pc = "done" /\ bulk.status # 400)
    => bulk.attempted = ValidRecipients(bulk.rows)

\* C9: when a bulk dispatch returns its list, failedEmails holds exactly the
\* recipients for which the send or a write raised, and no skipped row.
C9_FailureSetExact ==
    (bulk.pc = "done" /\ bulk.status = 200)
    => /\ Range(bulk.failedEmails) = bulk.raised
       /\ \A e \in Range(bulk.failedEmails) : ~Falsy(e)

\* A dispatch has returned with one recipient failed and another stored.
C9_Witness ==
    /\ bulk.pc = "done"
    /\ bulk.status = 200
    /\ Len(bulk.failedEmails) = 1
    /\ Len(sent_emails) = 1
    /\ bulk.failedEmails[1] # sent_emails[1].email

\* C10: a bulk dispatch whose shared subject or message is missing or empty
\* is answered 400 with nothing sent and nothing stored.
C10_UpfrontValidation ==
    (/\ bulk.pc # "idle"
     /\ \/ bulk.commonSubject \in {Undefined, ""}
        \/ bulk.commonMessage \in {Undefined, ""})
    => /\ bulk.pc = "done"
       /\ bulk.status = 400
       /\ bulk.attempted = <<>>
       /\ sent_emails = <<>>
       /\ sent_docs = {}

\* A dispatch with a subject and an empty message has been rejected.
C10_Witness ==
    /\ bulk.pc = "done"
    /\ bulk.status = 400
    /\ bulk.commonSubject = "Hi"
    /\ bulk.commonMessage = ""

\* The fields the row-shape rule gives a row, or NoRow for a row it skips.
ShapeFields(row, sharedSubject, sharedBody) ==
    LET n == Len(row)
        blank(x) == x \in {Null, ""}
    IN
    IF n = 1 /\ ~blank(row[1])
    THEN [name |-> Null, email |-> row[1],
          subject |-> sharedSubject, message |-> sharedBody]
    ELSE IF n = 2 /\ ~blank(row[2])
    THEN [name |-> row[1], email |-> row[2],
          subject |-> sharedSubject, message |-> sharedBody]
    ELSE IF n >= 4 /\ ~blank(row[2])
    THEN [name |-> row[1], email |-> row[2],
          subject |-> IF blank(row[3]) THEN sharedSubject ELSE row[3],
          message |-> IF blank(row[4]) THEN sharedBody ELSE row[4]]
    ELSE NoRow

\* The recipients the row-shape rule sends to, in input order.
RECURSIVE ShapeRecipients(_)
ShapeRecipients(rows) ==
    IF Len(rows) = 0 THEN <<>>
    ELSE LET r == ShapeFields(Head(rows), "s", "m") IN
         IF r = NoRow THEN ShapeRecipients(Tail(rows))
         ELSE <<r.email>> \o ShapeRecipients(Tail(rows))

\* C11: the row being sent and stored has the fields the row-shape rule
\* gives it (1 field: recipient; 2 fields: name, recipient; 4 or more: name,
\* recipient, own subject and body or the shared ones when blank), and when
\* the dispatch returns, only the rows the rule does not skip were sent to
\* and only they can be among the failures.
C11_RowShape ==
    /\ bulk.pc \in {"send", "insert", "doc"}
       => /\ bulk.cur = ShapeFields(bulk.dataRows[bulk.k],
                                    bulk.commonSubject, bulk.commonMessage)
          /\ bulk.cur # NoRow
    /\ (bulk.pc = "done" /\ bulk.status = 200)
       => /\ bulk.attempted = ShapeRecipients(bulk.dataRows)
          /\ Range(bulk.failedEmails) \subseteq Range(bulk.attempted)

\* A dispatch returned after storing a 4-field row with a blank subject
\* under the shared subject and its own body, and skipping a row without a
\* recipient.
C11_Witness ==
    /\ bulk.pc = "done"
    /\ bulk.status = 200
    /\ bulk.dataRows = <<<<"Bob", "a@x", "", "Body">>,
                         <<"Bob", Null, "Re", "Body">>>>
    /\ bulk.attempted = <<"a@x">>
    /\ bulk.failedEmails = <<>>
    /\ Len(sent_emails) = 1
    /\ sent_emails[1].subject = "Hi"
    /\ sent_emails[1].message = "Body"

\* C12: a dispatch that passed validation and whose file was read, whatever
\* its rows and whichever rows failed, ends with status 200 and the failed
\* list, never with an error status.
C12_BulkAlwaysOk ==
    (bulk.pc = "done" /\ bulk.parsed) => bulk.status = 200

\* The ids of the messages of a list.
ListIds(list) == {list[k].id : k \in 1..Len(list)}

\* The messages a cycle has listed so far: its response once it returned.
Reported(s) == IF s.pc = "done" THEN s.emails ELSE s.syncedEmails

\* C13: when a cycle returns its result, the count is the length of the
\* list and every listed message is in both inbound stores; and a message
\* whose id was stored (in both stores) before the cycle, so that its insert
\* did nothing, is not listed as newly synchronized.
C13_SyncResult ==
    /\ [](\A c \in Cycles :
            (Done(c) /\ sync[c].status = 200)
            => /\ sync[c].added = Len(sync[c].emails)
               /\ ListIds(sync[c].emails) \subseteq {r.id : r \in emails}
               /\ ListIds(sync[c].emails) \subseteq {d.id : d \in inbox})
    /\ [][\A c \in Cycles :
            (/\ sync[c].pc = "doc"
             /\ sync[c].noop
             /\ sync[c].emailsToSync[sync[c].i].id \in {d.id : d \in inbox}
             /\ sync[c].emailsToSync[sync[c].i].id
                   \notin ListIds(sync[c].syncedEmails))
            => sync[c].emailsToSync[sync[c].i].id
                  \notin ListIds(Reported(sync'[c]))]_vars

\* C14: storing a message whose id is already stored leaves the stored
\* record with that id as it was, every field and the timestamp included,
\* in the relational store and in the document store.
C14_ReinsertNoOp ==
    [][\A c \in Cycles :
         sync[c].pc \in {"insert", "doc"}
         => LET id == sync[c].emailsToSync[sync[c].i].id IN
            /\ \A r \in emails : r.id = id => r \in emails'
            /\ \A d \in inbox : d.id = id => d \in inbox']_vars

\* The numerically highest cursor carried by a message of the list.
HighestCursor(list) ==
    CHOOSE h \in Cursors(list) :
        \A g \in Cursors(list) : TextNum(g) <= TextNum(h)

\* C15: a cycle that returns its result after fetching at least one message
\* with a cursor has appended a cursor, and the cursor it appended is the
\* highest one carried by any fetched message, wherever that message stands
\* in the list and whether or not other messages carry a cursor.
C15_CursorSelection ==
    [][\A c \in Cycles :
         (/\ sync[c].pc \in {"doc", "cursor"}
          /\ sync'[c].pc = "done"
          /\ sync'[c].status = 200
          /\ Cursors(sync[c].emailsToSync) # {})
         => /\ sync[c].pc = "cursor"
            /\ gmail_sync_state' =
                 gmail_sync_state \cup {HighestCursor(sync[c].emailsToSync)}]_vars

\* C16: for every record, of a sync cycle, a bulk dispatch or a single send,
\* the document write is issued once the relational write has returned or
\* raised, so both writes are attempted even when the first fails; and a
\* write that succeeded is not undone: no stored record leaves its store.
C16_DualWrite ==
    [][/\ \A c \in Cycles :
            (sync[c].pc = "insert" /\ sync'[c] # sync[c])
            => sync'[c].pc = "doc"
       /\ (bulk.pc = "insert" /\ bulk' # bulk) => bulk'.pc = "doc"
       /\ (single.pc = "insert" /\ single' # single) => single'.pc = "doc"
       /\ {r.id : r \in emails} \subseteq {r.id : r \in emails'}
       /\ {d.id : d \in inbox} \subseteq {d.id : d \in inbox'}
       /\ {d.id : d \in sent_docs} \subseteq {d.id : d \in sent_docs'}
       /\ Len(sent_emails') >= Len(sent_emails)
       /\ SubSeq(sent_emails', 1, Len(sent_emails)) = sent_emails]_vars

\* C18: once a sent record is written to the relational store or to the
\* document store, no later send, whatever id it generates, changes,
\* replaces or removes it; each store only grows, and by one record at a
\* time.
C18_SentImmutable ==
    [][/\ Len(sent_emails') \in {Len(sent_emails), Len(sent_emails) + 1}
       /\ SubSeq(sent_emails', 1, Len(sent_emails)) = sent_emails
       /\ sent_docs \subseteq sent_docs'
       /\ Cardinality(sent_docs') \in {Cardinality(sent_docs),
                                       Cardinality(sent_docs) + 1}]_vars

\* C17: the recent-window fetch is called at most once per cycle: a cycle
\* reaches it only from the steps before any fetch returned, and does not
\* call it again after it returned or threw. When it throws, the cycle ends
\* at once with the one error response, and that step writes no inbound
\* record to either store and appends no cursor.
C17_FallbackFatal ==
    /\ [](\A c \in Cycles :
            /\ sync[c].pc \in {"read", "fetchNew", "fallback"}
               => /\ sync[c].emailsToSync = <<>>
                  /\ sync[c].syncedEmails = <<>>
                  /\ ~sync[c].fellBack
            /\ (Done(c) /\ sync[c].err = "fallback")
               => /\ sync[c].status = 500
                  /\ sync[c].emails = <<>>
                  /\ ~sync[c].fellBack)
    /\ [][\A c \in Cycles :
            sync'[c] # sync[c]
            => /\ sync'[c].pc = "fallback"
                  => sync[c].pc \in {"read", "fetchNew"}
               /\ sync'[c].pc = "fetchNew" => sync[c].pc = "read"
               /\ sync'[c].pc = "read" => sync[c].pc \in {"idle", "done"}
               /\ (sync[c].pc = "fallback" /\ sync'[c].err = "fallback")
                  => /\ Done(c)'
                     /\ sync'[c].status = 500
                     /\ UNCHANGED <<emails, inbox, gmail_sync_state>>]_vars

\* A cycle ended with the error response because the recent-window fetch
\* threw, while the stores hold what an earlier cycle wrote.
C17_Witness ==
    /\ Done("c1")
    /\ sync["c1"].err = "fallback"
    /\ sync["c1"].status = 500
    /\ Cardinality(emails) = 1
    /\ Cardinality(inbox) = 1

\* A fetched message that the filter lets through: it has a sender and the
\* sender is not the mailbox itself.
Survives(e) == e.from # NoFrom /\ AddressOf(e.from) # SMTP_USER

\* C19: a cycle issues the cursor's insert only when every message it
\* fetched that the filter let through is in both inbound stores; the
\* cursor table changes only in a step that ends such a cycle with its
\* result; and a cycle that ends with the error response, after a failed
\* fetch or a failed write, appends no cursor.
C19_CursorAfterPersist ==
    /\ [](\A c \in Cycles :
            sync[c].pc = "cursor"
            => \A e \in Range(sync[c].emailsToSync) :
                  Survives(e)
                  => /\ e.id \in {r.id : r \in emails}
                     /\ e.id \in {d.id : d \in inbox}
                     /\ e \in Range(sync[c].syncedEmails))
    /\ [][/\ gmail_sync_state' # gmail_sync_state
             => \E c \in Cycles : /\ sync[c].pc = "cursor"
                                  /\ Done(c)'
                                  /\ sync'[c].status = 200
          /\ \A c \in Cycles :
                (~Done(c) /\ Done(c)' /\ sync'[c].status = 500)
                => gmail_sync_state' = gmail_sync_state]_vars

\* A cycle is about to append a cursor after storing both messages it
\* fetched, while an earlier cycle that aborted has left no cursor.
C19_Witness ==
    /\ sync["c1"].pc = "cursor"
    /\ ListIds(sync["c1"].syncedEmails) = {"m1", "m2"}
    /\ {r.id : r \in emails} = {"m1", "m2"}
    /\ {d.id : d \in inbox} = {"m1", "m2"}
    /\ aborted
    /\ gmail_sync_state = {}

\* C20: in every state, in the middle of a cycle, after failed writes and
\* with cycles overlapping, every message id that has a document in inbox
\* has a row in emails.
C20_InboxWithinEmails ==
    {d.id : d \in inbox} \subseteq {r.id : r \in emails}

\* Two cycles have overlapped and one has aborted; a document is stored and
\* a cycle stands between its relational insert and its document write.
C20_Witness ==
    /\ overlap
    /\ aborted
    /\ inbox # {}
    /\ \E c \in Cycles : sync[c].pc = "doc"
    /\ \E c \in Cycles : Done(c) /\ sync[c].err = "doc"

====
